---------------------------- MODULE Spec2Model ----------------------------
(***************************************************************************)
(* zenchat-backend: the Express application (rate limiter, middleware      *)
(* stack, error-handling middleware) and the user controller (signUp,      *)
(* login, logout).                                                         *)
(***************************************************************************)
EXTENDS Integers, Sequences, FiniteSets, TLC

VARIABLES
    environment,  \* config.environment (NODE_ENV), fixed for a process
    clients,      \* the client addresses that send requests in this run
    hits,         \* the rate limiter's store: key -> hits in the current window
    sent,         \* per client address: requests it made since its key's window began
    last,         \* the HTTP exchange the application completed last
    users,        \* the datastore's User collection
    nextId,       \* the id the datastore gives the next created User
    req,          \* controller invocations in flight: slot -> handler state
    jar,          \* the client's cookie jar
    seen          \* the responses login has given to a wrong identifier or password

vars == <<environment, clients, hits, sent, last, users, nextId, req, jar, seen>>
appVars == <<hits, sent, last>>
authVars == <<users, nextId, req, jar, seen>>

Environments == {"development", "production", "test"}

(***************************************************************************)
(* Errors and responses                                                    *)
(***************************************************************************)
NoError == [class |-> "none", api |-> FALSE, type |-> "none", message |-> "", stack |-> ""]

ApiErr(class, type, message) ==
    [class |-> class, api |-> TRUE, type |-> type, message |-> message,
     stack |-> class \o ": " \o message \o " at <frames>"]

BadRequestError(message) == ApiErr("BadRequestError", "BadRequestError", message)

AuthFailureError(message) == ApiErr("AuthFailureError", "AuthFailureError", message)

RateLimitError(message) == ApiErr("RateLimitError", "RateLimitError", message)

DefaultInternalMessage == "Internal error"

InternalError == ApiErr("InternalError", "InternalError", DefaultInternalMessage)

\* a thrown value that is no ApiError (TypeError, a driver error, a parser error)
PlainError(message) ==
    [class |-> "Error", api |-> FALSE, type |-> "none", message |-> message,
     stack |-> "Error: " \o message \o " at <frames>"]

StatusOf(type) ==
    CASE type = "BadRequestError" -> 400
      [] type = "AuthFailureError" -> 401
      [] type = "RateLimitError" -> 429
      [] OTHER -> 500

\* what ApiError.handle(err, res) sends: one response carrying the error's
\* kind and message
ApiErrorHandle(err) ==
    [status |-> StatusOf(err.type), kind |-> err.type, message |-> err.message]


(***************************************************************************)
(* The rate limiter (express-rate-limit configured at app start)           *)
(***************************************************************************)
windowMs == 1 * 60 * 1000

max == 200

\* requestIp.getClientIp(req) gives null when no address can be determined
NoIp == "null"

Addresses == {"a1", "a2"}

AllIps == Addresses \cup {NoIp}

\* every request counted under one key
keyGeneratorShared(ip) == ""

keyGenerator(ip) == IF ip = NoIp THEN "" ELSE ip

Keys == {keyGenerator(ip) : ip \in AllIps}

\* hits above the limit the model still counts
MaxOver == 1

limitMessage ==
    "You exceeded the request limit. Allowed " \o ToString(max) \o " requests per "
        \o ToString(windowMs \div 60000) \o " minute."

\* the limiter middleware: count the request under its key, and pass the
\* RateLimitError to next() when the key's hits exceed max
limiter(ctx, rq) ==
    LET key == keyGenerator(rq.ip)
        totalHits == ctx.hits[key] + 1
    IN  [ctx EXCEPT !.hits = [@ EXCEPT ![key] = totalHits],
                    !.trace = Append(@, "limiter"),
                    !.allowed = (totalHits <= max),
                    !.err = IF totalHits > max THEN RateLimitError(limitMessage) ELSE @]

(***************************************************************************)
(* The error-handling middleware                                           *)
(***************************************************************************)
\* the stack sent to the client in every mode but production
errorHandlerNonProduction(err, env) ==
    IF err.api
    THEN [responses |-> <<ApiErrorHandle(err)>>, logged |-> (err.type = "InternalError")]
    ELSE IF env # "production"
         THEN [responses |-> <<[status |-> 500, kind |-> "stack", message |-> err.stack]>>,
               logged |-> TRUE]
         ELSE [responses |-> <<ApiErrorHandle(InternalError)>>, logged |-> TRUE]

\* the responses the middleware sends for err, and whether it logs err
errorHandler(err, env) ==
    IF err.api
    THEN [responses |-> <<ApiErrorHandle(err)>>, logged |-> (err.type = "InternalError")]
    ELSE IF env = "development"
         THEN [responses |-> <<[status |-> 500, kind |-> "stack", message |-> err.stack]>>,
               logged |-> TRUE]
         ELSE [responses |-> <<ApiErrorHandle(InternalError)>>, logged |-> TRUE]

(***************************************************************************)
(* The middleware stack, in the order of the app.use / app.get calls       *)
(***************************************************************************)
\* the limiter registered after the routes
StackLimiterAfterRoutes ==
    << "requestIp", "json", "urlencoded", "cors", "morgan", "cookieParser",
       "root", "health", "auth", "chat", "messages", "public", "limiter", "errorHandler" >>

Stack ==
    << "requestIp", "limiter", "json", "urlencoded", "cors", "morgan", "cookieParser",
       "root", "health", "auth", "chat", "messages", "public", "errorHandler" >>

Routers == {"auth", "chat", "messages"}

Mount(m) ==
    CASE m = "root" -> {"/"}
      [] m = "health" -> {"/health"}
      [] m = "auth" -> {"/auth/signup", "/auth/login", "/auth/logout"}
      [] m = "chat" -> {"/api/chat"}
      [] m = "messages" -> {"/api/messages"}
      [] m = "public" -> {"/public/avatar.png"}
      [] OTHER -> {}

\* what a route handler does with a request that reached it
Behaviours == {"ok", "throwBadRequest", "throwAuthFailure", "throwInternal", "throwError"}

Thrown(behav) ==
    CASE behav = "throwBadRequest" -> BadRequestError("bad request")
      [] behav = "throwAuthFailure" -> AuthFailureError("Invalid credentials")
      [] behav = "throwInternal" -> InternalError
      [] behav = "throwError" -> PlainError("connection lost to 10.0.0.5:27017")
      [] OTHER -> NoError

Send(ctx, m, response) ==
    [ctx EXCEPT !.trace = Append(@, m), !.responses = Append(@, response), !.going = FALSE]

Pass(ctx, m) == [ctx EXCEPT !.trace = Append(@, m)]

\* one layer of the stack acting on a request it applies to
Layer(m, ctx, rq, env) ==
    CASE m = "limiter" -> limiter(ctx, rq)
      [] m = "json" ->
            IF rq.badBody
            THEN [ctx EXCEPT !.trace = Append(@, m),
                             !.err = PlainError("Unexpected token in JSON")]
            ELSE Pass(ctx, m)
      [] m \in {"root", "health", "public"} ->
            Send(ctx, m, [status |-> 200, kind |-> "ok", message |-> m])
      [] m \in Routers ->
            IF rq.behav = "ok"
            THEN Send(ctx, m, [status |-> 200, kind |-> "ok", message |-> m])
            ELSE [ctx EXCEPT !.trace = Append(@, m), !.err = Thrown(rq.behav)]
      [] m = "errorHandler" ->
            LET h == errorHandler(ctx.err, env)
            IN  [ctx EXCEPT !.trace = Append(@, m),
                            !.responses = @ \o h.responses,
                            !.logged = h.logged,
                            !.going = FALSE]
      [] OTHER -> Pass(ctx, m)

\* Express skips a layer whose path does not match, skips ordinary layers
\* while an error is pending and skips error layers while none is
Applies(m, ctx, rq) ==
    /\ ctx.going
    /\ IF m = "errorHandler" THEN ctx.err # NoError ELSE ctx.err = NoError
    /\ Mount(m) # {} => rq.path \in Mount(m)

RECURSIVE RunFrom(_, _, _, _, _)
RunFrom(stack, i, ctx, rq, env) ==
    IF i > Len(stack)
    THEN IF ctx.going /\ ctx.responses = <<>>
         THEN [ctx EXCEPT !.responses = <<[status |-> 404, kind |-> "notFound",
                                           message |-> "Cannot GET"]>>,
                          !.going = FALSE]
         ELSE ctx
    ELSE RunFrom(stack, i + 1,
                 IF Applies(stack[i], ctx, rq) THEN Layer(stack[i], ctx, rq, env) ELSE ctx,
                 rq, env)

NoExchange ==
    [ip |-> NoIp, path |-> "", trace |-> <<>>, err |-> NoError, responses |-> <<>>,
     allowed |-> TRUE, logged |-> FALSE]

\* the application answering one request
HandleRequest(ip, path, behav, badBody) ==
    LET rq == [ip |-> ip, path |-> path, behav |-> behav, badBody |-> badBody]
        ctx0 == [trace |-> <<>>, err |-> NoError, responses |-> <<>>, going |-> TRUE,
                 hits |-> hits, allowed |-> TRUE, logged |-> FALSE]
    IN  /\ ip \in clients
        /\ hits[keyGenerator(ip)] < max + MaxOver
        /\ \E out \in {RunFrom(Stack, 1, ctx0, rq, environment)} :
              /\ hits' = out.hits
              /\ last' = [ip |-> ip, path |-> path, trace |-> out.trace, err |-> out.err,
                          responses |-> out.responses, allowed |-> out.allowed,
                          logged |-> out.logged]
        /\ sent' = [sent EXCEPT ![ip] = @ + 1]
        /\ UNCHANGED <<environment, clients, authVars>>

\* the window of some keys ends: their hits start again from zero
WindowReset(K) ==
    /\ K # {}
    /\ \E k \in K : hits[k] > 0
    /\ hits' = [k \in Keys |-> IF k \in K THEN 0 ELSE hits[k]]
    /\ sent' = [ip \in AllIps |-> IF keyGenerator(ip) \in K THEN 0 ELSE sent[ip]]
    /\ UNCHANGED <<last, environment, clients, authVars>>

\* no controller invocation is modelled in the runs of the middleware stack
InitAuthIdle ==
    /\ users = {}
    /\ nextId = 1
    /\ req = <<>>
    /\ jar = {}
    /\ seen = {}

\* the whole application under requests from one client, with or without a
\* resolvable address
InitApp ==
    /\ environment \in Environments
    /\ clients \in {{"a1"}, {NoIp}}
    /\ hits = [k \in Keys |-> 0]
    /\ sent = [ip \in AllIps |-> 0]
    /\ last = NoExchange
    /\ InitAuthIdle

LimiterNext ==
    \/ \E ip \in Addresses : HandleRequest(ip, "/health", "ok", FALSE)
    \/ \E K \in SUBSET Keys : WindowReset(K)

\* the limiter under requests from two client addresses
InitLimiter ==
    /\ environment \in Environments
    /\ clients = Addresses
    /\ hits = [k \in Keys |-> 0]
    /\ sent = [ip \in AllIps |-> 0]
    /\ last = NoExchange
    /\ InitAuthIdle

SpecLimiter == InitLimiter /\ [][LimiterNext]_vars

AppPaths ==
    {"/", "/health", "/auth/signup", "/auth/login", "/auth/logout", "/api/chat",
     "/api/messages", "/public/avatar.png", "/missing"}

\* the requests the application is driven with: every path answered normally,
\* the routers' handlers throwing each kind of error, and an unparsable body
AppRequests ==
    {[path |-> p, behav |-> "ok", badBody |-> FALSE] : p \in AppPaths}
        \cup {[path |-> p, behav |-> b, badBody |-> FALSE] :
                 p \in {"/auth/login", "/api/chat"}, b \in Behaviours}
        \cup {[path |-> "/auth/signup", behav |-> "ok", badBody |-> TRUE]}

AppNext ==
    \/ \E ip \in AllIps, r \in AppRequests : HandleRequest(ip, r.path, r.behav, r.badBody)
    \/ \E K \in SUBSET Keys : WindowReset(K)

SpecApp == InitApp /\ [][AppNext]_vars


(***************************************************************************)
(* The user controller: signUp, login, logout                              *)
(***************************************************************************)
Emails == {"e1@x", "e2@x"}

Usernames == {"u1", "u2"}

Passwords == {"p1", "p2"}

\* a field the request body does not carry
Undefined == "undefined"

\* what login's userId may be: an email, a username, or neither
Identifiers == Emails \cup Usernames \cup {"nobody"}

Salts == {"s1", "s2"}

\* the passwords signUp is called with
SignUpPasswords == {"p1", Undefined}

\* the passwords login is called with: the right one, a wrong one, the empty
\* string, none
LoginPasswords == Passwords \cup {"", Undefined}

\* !password
Missing(password) == password \in {"", Undefined}

\* the users the datastore may come to hold
MaxUsers == 2

\* the concurrent invocations of the controller
Slots == {"r1", "r2"}

\* the invocation that serves a client whose requests follow one another
SessionSlots == {"r1"}

\* bcrypt.hash(data, rounds): a salted digest, here under a given salt
bcryptHash(data, rounds, salt) == [rounds |-> rounds, salt |-> salt, digest |-> <<"H", salt, data>>]

\* bcrypt.compare(data, encrypted): hash data again under the digest's salt and rounds
bcryptCompare(data, encrypted) == bcryptHash(data, encrypted.rounds, encrypted.salt) = encrypted

\* userRepo.findByEmail, findByUsername, findByEmailOrUsername: the matching Users
findByEmail(email) == {u \in users : u.email = email}

findByUsername(username) == {u \in users : u.username = username}

findByEmailOrUsername(id) == {u \in users : u.email = id \/ u.username = id}

\* the User userRepo.create stores (avatarUrl is cosmetic and left out)
NewUser(id, username, email, hashedPassword) ==
    [id |-> id, username |-> username, email |-> email, password |-> hashedPassword,
     role |-> "USER", status |-> TRUE]

\* createTokens(user)
createTokens(user) ==
    [accessToken |-> <<"access", user.id>>, refreshToken |-> <<"refresh", user.id>>]

\* filterUserData(user), used by signUp
filterUserData(user) ==
    [id |-> user.id, username |-> user.username, email |-> user.email, role |-> user.role]

\* only status taken out of the user
filteredUserKeepsPassword(user) ==
    [id |-> user.id, username |-> user.username, email |-> user.email,
     password |-> user.password, role |-> user.role]

\* login's { password: pass, status, ...filteredUser } = user
filteredUser(user) ==
    [id |-> user.id, username |-> user.username, email |-> user.email, role |-> user.role]

\* the cookie options of login and logout
options == [httpOnly |-> TRUE, secure |-> (environment = "production")]

Cookie(name, value, opts) == [name |-> name, value |-> value, clear |-> FALSE, opts |-> opts]

ClearCookie(name, opts) == [name |-> name, value |-> <<>>, clear |-> TRUE, opts |-> opts]

\* the client's jar after a response's Set-Cookie headers
ApplyCookies(j, cookies) ==
    {c \in j : \A k \in cookies : k.name # c.name}
        \cup {[name |-> k.name, value |-> k.value] : k \in {k \in cookies : ~k.clear}}

SuccessResponse(message) == [status |-> 200, kind |-> "SuccessResponse", message |-> message]

NoResponse == [status |-> 0, kind |-> "none", message |-> ""]

NoBody == [email |-> "", username |-> "", userId |-> "", password |-> Undefined]

Idle ==
    [op |-> "none", pc |-> "idle", body |-> NoBody, found |-> {}, err |-> NoError,
     http |-> NoResponse, data |-> {}, cookies |-> {}, dup |-> FALSE, created |-> FALSE,
     fail |-> "", after |-> "none", jarBefore |-> {}, jarAfter |-> {}]

Free(r) == req[r].pc \in {"idle", "done"}

InFlightSignUps == {r \in Slots : req[r].op = "signUp" /\ req[r].pc # "done"}

\* asyncHandler passes what the handler throws to next(): the error handler answers
Throw(r, err, why) ==
    /\ req' = [req EXCEPT ![r] = [@ EXCEPT !.pc = "done", !.err = err, !.fail = why,
                                            !.found = {},
                                            !.http = errorHandler(err, environment).responses[1]]]
    /\ seen' = IF why \in {"unknownIdentifier", "wrongPassword"}
                  /\ ~Missing(req[r].body.password)
               THEN seen \cup {errorHandler(err, environment).responses[1]}
               ELSE seen
    /\ UNCHANGED <<users, nextId, jar, environment, clients, appVars>>

\* a signUp request reaches the handler
StartSignUp(r, email, username, password) ==
    /\ Free(r)
    /\ nextId + Cardinality(InFlightSignUps) <= MaxUsers
    /\ req' = [req EXCEPT ![r] =
                  [Idle EXCEPT !.op = "signUp", !.pc = "findByEmail",
                               !.body = [NoBody EXCEPT !.email = email, !.username = username,
                                                       !.password = password],
                               !.after = req[r].op,
                               !.dup = (findByEmail(email) # {} \/ findByUsername(username) # {})]]
    /\ UNCHANGED <<users, nextId, jar, seen, environment, clients, appVars>>

\* check if email already exists
SignUpFindByEmail(r) ==
    /\ req[r].op = "signUp" /\ req[r].pc = "findByEmail"
    /\ IF findByEmail(req[r].body.email) # {}
       THEN Throw(r, BadRequestError("Email already exists"), "email")
       ELSE /\ req' = [req EXCEPT ![r].pc = "findByUsername"]
            /\ UNCHANGED <<users, nextId, jar, seen, environment, clients, appVars>>

\* the username taken without a check
SignUpFindByUsernameUnchecked(r) ==
    /\ req[r].op = "signUp" /\ req[r].pc = "findByUsername"
    /\ req' = [req EXCEPT ![r].pc = "create"]
    /\ UNCHANGED <<users, nextId, jar, seen, environment, clients, appVars>>

\* check if username already exists
SignUpFindByUsername(r) ==
    /\ req[r].op = "signUp" /\ req[r].pc = "findByUsername"
    /\ IF findByUsername(req[r].body.username) # {}
       THEN Throw(r, BadRequestError("Username already exists"), "username")
       ELSE /\ req' = [req EXCEPT ![r].pc = "create"]
            /\ UNCHANGED <<users, nextId, jar, seen, environment, clients, appVars>>

\* hash the password, create the user, issue the tokens and answer
SignUpCreate(r) ==
    /\ req[r].op = "signUp" /\ req[r].pc = "create"
    /\ IF req[r].body.password = Undefined
       THEN Throw(r, PlainError("data and salt arguments required"), "hash")
       ELSE \E salt \in Salts :
               \E user \in {NewUser(nextId, req[r].body.username, req[r].body.email,
                                    bcryptHash(req[r].body.password, 10, salt))} :
                  /\ users' = users \cup {user}
                  /\ nextId' = nextId + 1
                  /\ req' = [req EXCEPT ![r] =
                                [@ EXCEPT !.pc = "done", !.created = TRUE,
                                          !.http = SuccessResponse("Signup successful"),
                                          !.data = {[user |-> filterUserData(user),
                                                     tokens |-> createTokens(user)]}]]
                  /\ UNCHANGED <<jar, seen, environment, clients, appVars>>

\* a login request reaches the handler
StartLogin(r, userId, password) ==
    /\ Free(r)
    /\ req' = [req EXCEPT ![r] =
                  [Idle EXCEPT !.op = "login", !.pc = "findByEmailOrUsername",
                               !.after = req[r].op,
                               !.body = [NoBody EXCEPT !.userId = userId,
                                                       !.password = password]]]
    /\ UNCHANGED <<users, nextId, jar, seen, environment, clients, appVars>>

\* look the user up, then check that a password was sent
LoginFind(r) ==
    /\ req[r].op = "login" /\ req[r].pc = "findByEmailOrUsername"
    /\ IF findByEmailOrUsername(req[r].body.userId) = {}
       THEN Throw(r, BadRequestError("Invalid email/username"), "unknownIdentifier")
       ELSE IF Missing(req[r].body.password)
            THEN Throw(r, BadRequestError("No credentials provided"), "noPassword")
            ELSE \E user \in findByEmailOrUsername(req[r].body.userId) :
                    /\ req' = [req EXCEPT ![r] = [@ EXCEPT !.pc = "compare", !.found = {user}]]
                    /\ UNCHANGED <<users, nextId, jar, seen, environment, clients, appVars>>

\* the tokens issued and the cookies attached whatever the comparison gives
LoginCompareUnchecked(r) ==
    /\ req[r].op = "login" /\ req[r].pc = "compare"
    /\ \E user \in req[r].found :
          \E tokens \in {createTokens(user)} :
             \E cookies \in {{Cookie("accessToken", tokens.accessToken, options),
                              Cookie("refreshToken", tokens.refreshToken, options)}} :
                /\ req' = [req EXCEPT ![r] =
                              [@ EXCEPT !.pc = "done", !.found = {},
                                        !.cookies = cookies,
                                        !.http = SuccessResponse("Login successful"),
                                        !.data = {[user |-> filteredUser(user),
                                                   tokens |-> tokens]},
                                        !.jarAfter = ApplyCookies(jar, cookies)]]
                /\ jar' = ApplyCookies(jar, cookies)
                /\ UNCHANGED <<users, nextId, seen, environment, clients, appVars>>

\* compare the password with the user's digest, then issue the tokens, attach
\* the cookies and answer
LoginCompare(r) ==
    /\ req[r].op = "login" /\ req[r].pc = "compare"
    /\ \E user \in req[r].found :
          IF ~bcryptCompare(req[r].body.password, user.password)
          THEN Throw(r, AuthFailureError("Invalid credentials"), "wrongPassword")
          ELSE \E tokens \in {createTokens(user)} :
                 \E cookies \in {{Cookie("accessToken", tokens.accessToken, options),
                                  Cookie("refreshToken", tokens.refreshToken, options)}} :
                    /\ req' = [req EXCEPT ![r] =
                                  [@ EXCEPT !.pc = "done", !.found = {},
                                            !.cookies = cookies,
                                            !.http = SuccessResponse("Login successful"),
                                            !.data = {[user |-> filteredUser(user),
                                                       tokens |-> tokens]},
                                            !.jarAfter = ApplyCookies(jar, cookies)]]
                    /\ jar' = ApplyCookies(jar, cookies)
                    /\ UNCHANGED <<users, nextId, seen, environment, clients, appVars>>

\* logout refused when the client holds no credentials
LogoutRequiresSession(r) ==
    /\ Free(r)
    /\ IF jar = {}
       THEN /\ req' = [req EXCEPT ![r] =
                          [Idle EXCEPT !.op = "logout", !.pc = "done", !.after = req[r].op,
                                       !.err = AuthFailureError("Invalid credentials"),
                                       !.http = ApiErrorHandle(AuthFailureError("Invalid credentials"))]]
            /\ UNCHANGED jar
       ELSE \E cookies \in {{ClearCookie("accessToken", options),
                              ClearCookie("refreshToken", options)}} :
               /\ req' = [req EXCEPT ![r] =
                             [Idle EXCEPT !.op = "logout", !.pc = "done",
                                          !.after = req[r].op,
                                          !.cookies = cookies,
                                          !.http = SuccessResponse("Logout successful"),
                                          !.jarBefore = jar,
                                          !.jarAfter = ApplyCookies(jar, cookies)]]
               /\ jar' = ApplyCookies(jar, cookies)
    /\ UNCHANGED <<users, nextId, seen, environment, clients, appVars>>

\* logout: clear both cookies and answer
Logout(r) ==
    /\ Free(r)
    /\ \E cookies \in {{ClearCookie("accessToken", options),
                        ClearCookie("refreshToken", options)}} :
          /\ req' = [req EXCEPT ![r] =
                        [Idle EXCEPT !.op = "logout", !.pc = "done",
                                     !.after = req[r].op,
                                     !.cookies = cookies,
                                     !.http = SuccessResponse("Logout successful"),
                                     !.jarBefore = jar,
                                     !.jarAfter = ApplyCookies(jar, cookies)]]
          /\ jar' = ApplyCookies(jar, cookies)
    /\ UNCHANGED <<users, nextId, seen, environment, clients, appVars>>

Init ==
    /\ environment \in Environments
    /\ clients = {}
    /\ hits = [k \in Keys |-> 0]
    /\ sent = [ip \in AllIps |-> 0]
    /\ last = NoExchange
    /\ users = {}
    /\ nextId = 1
    /\ req = [r \in Slots |-> Idle]
    /\ jar = {}
    /\ seen = {}

SignUpStep(r) ==
    \/ \E email \in Emails, username \in Usernames, password \in SignUpPasswords :
          StartSignUp(r, email, username, password)
    \/ SignUpFindByEmail(r)
    \/ SignUpFindByUsername(r)
    \/ SignUpCreate(r)

LoginStep(r) ==
    \/ \E userId \in Identifiers, password \in LoginPasswords :
          StartLogin(r, userId, password)
    \/ LoginFind(r)
    \/ LoginCompare(r)

\* signUp requests served concurrently
SignUpNext == \E r \in Slots : SignUpStep(r)

SpecSignUp == Init /\ [][SignUpNext]_vars

\* signUp, login and logout requests of one client, served one after another
SessionNext == \E r \in SessionSlots : SignUpStep(r) \/ LoginStep(r) \/ Logout(r)

SpecSession == Init /\ [][SessionNext]_vars

(***************************************************************************)
(* Properties of the application                                           *)
(***************************************************************************)
RateLimitResponse ==
    [status |-> 429, kind |-> "RateLimitError",
     message |-> "You exceeded the request limit. Allowed 200 requests per 1 minute."]

\* C4: a request from an address is allowed exactly when it is among the first
\* max (200) requests of that address in the current window, whatever the other
\* addresses have sent; the next one (the 201st) is rejected with the
\* RateLimitError naming 200 requests per 1 minute.
C4_PerAddressLimit ==
    [][\A ip \in Addresses :
          sent'[ip] = sent[ip] + 1 =>
             /\ last'.ip = ip
             /\ sent'[ip] <= 200 =>
                   /\ last'.allowed
                   /\ last'.err = NoError
                   /\ last'.responses = <<[status |-> 200, kind |-> "ok",
                                           message |-> "health"]>>
             /\ sent'[ip] > 200 =>
                   /\ ~last'.allowed
                   /\ last'.err.type = "RateLimitError"
                   /\ last'.responses = <<RateLimitResponse>>]_vars

\* one address has used up its window and been rejected, and a request of the
\* other address has been allowed after that
C4_Witness ==
    /\ sent["a1"] = 201
    /\ hits["a1"] = 201
    /\ sent["a2"] \in 1..200
    /\ last.ip = "a2"
    /\ last.allowed

\* the components that are neither the limiter, nor the address lookup it
\* keys on, nor the error handler
Inner(trace) == {i \in 1..Len(trace) : trace[i] \notin {"requestIp", "limiter", "errorHandler"}}

LimiterAt(trace) == {i \in 1..Len(trace) : trace[i] = "limiter"}

\* C5: every request meets the limiter before any parser, route handler or
\* other component runs, and a request the limiter denies runs none of them:
\* it ends in the error handler's rate-limit response only.
C5_LimiterFirst ==
    last # NoExchange =>
        /\ Cardinality(LimiterAt(last.trace)) = 1
        /\ \A i \in Inner(last.trace) : \A j \in LimiterAt(last.trace) : j < i
        /\ ~last.allowed =>
              /\ Inner(last.trace) = {}
              /\ last.trace = <<"requestIp", "limiter", "errorHandler">>
              /\ last.responses = <<RateLimitResponse>>

\* a login request arrived over the limit and was denied
C5_Witness ==
    /\ last.path = "/auth/login"
    /\ ~last.allowed
    /\ hits[keyGenerator(last.ip)] = 201

\* C9: an error that reaches the error handler gets exactly one response; an
\* error that is no ApiError is answered with the generic InternalError message
\* in every mode but development, and the stack is sent in development only.
C9_OneResponseGenericInternal ==
    last.err # NoError =>
        /\ Len(last.responses) = 1
        /\ last.responses[1].kind = "stack" => environment = "development"
        /\ ~last.err.api =>
              /\ last.logged
              /\ IF environment = "development"
                 THEN last.responses[1] =
                         [status |-> 500, kind |-> "stack", message |-> last.err.stack]
                 ELSE last.responses[1] =
                         [status |-> 500, kind |-> "InternalError",
                          message |-> "Internal error"]

\* a handler threw a plain Error in test mode and the client got the generic message
C9_Witness ==
    /\ environment = "test"
    /\ last.err = PlainError("connection lost to 10.0.0.5:27017")
    /\ "auth" \in {last.trace[i] : i \in 1..Len(last.trace)}
    /\ last.responses = <<[status |-> 500, kind |-> "InternalError",
                           message |-> "Internal error"]>>

(***************************************************************************)
(* Properties of the user controller                                       *)
(***************************************************************************)
\* C1: whatever the interleaving of signUp requests, no two stored Users share
\* an email and no two share a username.
C1_UniqueIdentity ==
    \A u1, u2 \in users :
        u1 # u2 => u1.email # u2.email /\ u1.username # u2.username

DuplicateIdentity ==
    {BadRequestError("Email already exists"), BadRequestError("Username already exists")}

\* C2: a signUp that arrives when a stored User already has its email or its
\* username creates no User and issues no tokens, and ends in the
\* DuplicateIdentity error (400, "Email already exists" or "Username already
\* exists").
C2_DuplicateRejected ==
    \A r \in Slots :
        req[r].op = "signUp" /\ req[r].dup =>
            /\ ~req[r].created
            /\ req[r].data = {}
            /\ req[r].cookies = {}
            /\ req[r].pc = "done" =>
                  /\ req[r].err \in DuplicateIdentity
                  /\ req[r].http = [status |-> 400, kind |-> "BadRequestError",
                                    message |-> req[r].err.message]
                  /\ req[r].err.message = "Email already exists"
                        => \E u \in users : u.email = req[r].body.email
                  /\ req[r].err.message = "Username already exists"
                        => \E u \in users : u.username = req[r].body.username

\* a signUp reusing only the username of the one stored User has been refused
C2_Witness ==
    \E r \in Slots :
        /\ req[r].op = "signUp" /\ req[r].dup /\ req[r].pc = "done"
        /\ req[r].err = BadRequestError("Username already exists")
        /\ Cardinality(users) = 1
        /\ \A u \in users : u.email # req[r].body.email

\* C3: with a password supplied, a login whose identifier matches no User and
\* a login whose password does not verify get the same response.
C3_IndistinguishableFailures == \A h1, h2 \in seen : h1 = h2

\* C6: a logout always succeeds with both credentials cleared, whether or not
\* the client held credentials and whether or not the request before it was a
\* logout too.
C6_LogoutIdempotent ==
    \A r \in Slots :
        req[r].op = "logout" =>
            /\ req[r].pc = "done"
            /\ req[r].err = NoError
            /\ req[r].http = [status |-> 200, kind |-> "SuccessResponse",
                              message |-> "Logout successful"]
            /\ req[r].data = {}
            /\ {c.name : c \in req[r].cookies} = {"accessToken", "refreshToken"}
            /\ \A c \in req[r].cookies : c.clear
            /\ \A c \in req[r].jarAfter : c.name \notin {"accessToken", "refreshToken"}

\* a second logout in a row, with no credentials stored, has succeeded
C6_Witness ==
    \E r \in Slots :
        /\ req[r].op = "logout" /\ req[r].after = "logout"
        /\ req[r].jarBefore = {}
        /\ req[r].pc = "done"
        /\ users # {}

\* C7: a login without a password ends in MissingCredentials ("No credentials
\* provided"), whether or not the identifier matches a User, and issues no
\* tokens.
C7_MissingPassword ==
    \A r \in Slots :
        req[r].op = "login" /\ req[r].pc = "done" /\ req[r].body.password \in {"", Undefined} =>
            /\ req[r].err = BadRequestError("No credentials provided")
            /\ req[r].data = {}
            /\ req[r].cookies = {}

\* C8: the user returned by a successful login or signUp has no password
\* field, while the stored User it was made from has one.
C8_NoDigestReturned ==
    \A r \in Slots :
        \A d \in req[r].data :
            /\ "password" \notin DOMAIN d.user
            /\ \E u \in users :
                  /\ u.id = d.user.id
                  /\ u.email = d.user.email
                  /\ u.username = d.user.username
                  /\ "password" \in DOMAIN u
                  /\ u.password.rounds = 10

\* a login has succeeded
C8_Witness ==
    \E r \in Slots :
        /\ req[r].op = "login" /\ req[r].pc = "done" /\ req[r].err = NoError
        /\ req[r].data # {}

\* C10: login issues tokens and attaches the accessToken and refreshToken
\* cookies only for an identifier that names a stored User whose digest the
\* password verifies against; a failed login carries no tokens and no cookies.
C10_TokensOnlyAfterVerification ==
    \A r \in Slots :
        req[r].op = "login" =>
            /\ req[r].data # {} \/ req[r].cookies # {} =>
                  /\ req[r].pc = "done"
                  /\ req[r].err = NoError
                  /\ \E u \in users :
                        /\ req[r].body.userId \in {u.email, u.username}
                        /\ \E salt \in Salts :
                              u.password = [rounds |-> 10, salt |-> salt,
                                            digest |-> <<"H", salt, req[r].body.password>>]
                        /\ \A d \in req[r].data :
                              /\ d.user.id = u.id
                              /\ d.tokens = [accessToken |-> <<"access", u.id>>,
                                             refreshToken |-> <<"refresh", u.id>>]
                        /\ {[name |-> c.name, value |-> c.value] : c \in req[r].cookies}
                              = {[name |-> "accessToken", value |-> <<"access", u.id>>],
                                 [name |-> "refreshToken", value |-> <<"refresh", u.id>>]}
                  /\ \A c \in req[r].cookies :
                        /\ ~c.clear
                        /\ c.opts = [httpOnly |-> TRUE, secure |-> (environment = "production")]
            /\ req[r].pc = "done" /\ req[r].err # NoError =>
                  /\ req[r].data = {}
                  /\ req[r].cookies = {}
                  /\ req[r].fail \in {"unknownIdentifier", "noPassword", "wrongPassword"}

\* a login by username with the right password has been answered with both cookies
C10_Witness ==
    \E r \in Slots :
        /\ req[r].op = "login" /\ req[r].pc = "done" /\ req[r].err = NoError
        /\ req[r].body.userId \in Usernames
        /\ Cardinality(req[r].cookies) = 2
        /\ Cardinality(jar) = 2

=============================================================================
